---------------------------- MODULE Spec2Model ----------------------------
(***************************************************************************)
(* A model of app.py, the local events finder: the event normalisation     *)
(* pipeline (categorize_event, parse_event_datetime, parse_event_location),*)
(* the two source extractors, the aggregator                               *)
(* get_events_from_multiple_sources, create_weekend_digest and the         *)
(* filter_events route.                                                    *)
(*                                                                         *)
(* Text is a sequence of one-character strings, so that lower(), strip(),  *)
(* startswith(), slicing and the substring test are computed character by  *)
(* character as Python computes them.                                      *)
(***************************************************************************)
EXTENDS Integers, Sequences, FiniteSets, TLC

VARIABLES
    pc,         \* where the search request stands: idle, eventbrite, meetup, done
    city,       \* the city of the request in progress
    now,        \* datetime.now() as read during the request
    urlIdx,     \* scrape_eventbrite_events: index of the URL to fetch next
    events,     \* scrape_eventbrite_events: the records extracted so far
    meetup_events, \* get_events_from_multiple_sources: what scrape_meetup_events returned
    all_events, \* get_events_from_multiple_sources: the records gathered so far
    fetches,    \* the fetches issued by the request, in order
    response,   \* what search_events returned
    call,       \* a call of one of the pure functions or of filter_events: its arguments
    ret         \* ... and what it returned

vars == <<pc, city, now, urlIdx, events, meetup_events, all_events, fetches, response, call, ret>>

-----------------------------------------------------------------------------
(* Text *)

UpperChars == <<"A","B","C","D","E","F","G","H","I","J","K","L","M","N","O","P","Q","R","S","T","U","V","W","X","Y","Z">>

LowerChars == <<"a","b","c","d","e","f","g","h","i","j","k","l","m","n","o","p","q","r","s","t","u","v","w","x","y","z">>

Whitespace == {" ", "\t", "\n"}

\* str.lower() on one character
LowerOf == [i \in 1..Len(UpperChars) |-> LowerChars[i]]

UpperSet == {UpperChars[i] : i \in 1..Len(UpperChars)}

UpperIndex == [c \in UpperSet |-> CHOOSE i \in 1..Len(UpperChars) : UpperChars[i] = c]

lowerChar(c) == IF c \in UpperSet THEN LowerOf[UpperIndex[c]] ELSE c

\* str.lower()
lower(s) == [i \in 1..Len(s) |-> lowerChar(s[i])]

\* str.strip(): leading and trailing whitespace removed
strip(s) ==
    LET idx == {i \in 1..Len(s) : s[i] \notin Whitespace}
    IN  IF idx = {} THEN <<>>
        ELSE LET lo == CHOOSE i \in idx : \A j \in idx : i <= j
                 hi == CHOOSE i \in idx : \A j \in idx : j <= i
             IN  SubSeq(s, lo, hi)

\* str.startswith(prefix)
startswith(s, prefix) ==
    /\ Len(prefix) <= Len(s)
    /\ \A j \in 1..Len(prefix) : s[j] = prefix[j]

\* Python's `keyword in text` on strings: keyword occurs as a substring
Contains(text, keyword) ==
    \/ keyword = <<>>
    \/ \E i \in 1..(Len(text) - Len(keyword) + 1) :
           /\ text[i] = keyword[1]
           /\ \A j \in 2..Len(keyword) : text[i + j - 1] = keyword[j]

\* s[:n]
Prefix(s, n) == SubSeq(s, 1, IF Len(s) < n THEN Len(s) ELSE n)

\* a list handed on whole, the cut forgotten
Take_All(list, n) == list

\* list[:n]
Take(list, n) == SubSeq(list, 1, IF Len(list) < n THEN Len(list) ELSE n)

RECURSIVE replace(_, _, _)
\* str.replace(c, r) for a one-character c
replace(s, c, r) ==
    IF s = <<>> THEN <<>>
    ELSE (IF Head(s) = c THEN r ELSE <<Head(s)>>) \o replace(Tail(s), c, r)

\* a text of n copies of the character c
Rep(c, n) == [i \in 1..n |-> c]

-----------------------------------------------------------------------------
(* categorize_event *)

\* The category table in its declaration order (a dict iterates in insertion order).
EVENT_CATEGORIES == <<
    [category |-> "music", keywords |-> <<
         <<"c","o","n","c","e","r","t">>,
         <<"b","a","n","d">>,
         <<"d","j">>,
         <<"m","u","s","i","c">>,
         <<"l","i","v","e"," ","m","u","s","i","c">>,
         <<"f","e","s","t","i","v","a","l">>,
         <<"a","c","o","u","s","t","i","c">>,
         <<"j","a","z","z">>,
         <<"r","o","c","k">>,
         <<"p","o","p">>>>],
    [category |-> "sports", keywords |-> <<
         <<"g","a","m","e">>,
         <<"m","a","t","c","h">>,
         <<"t","o","u","r","n","a","m","e","n","t">>,
         <<"l","e","a","g","u","e">>,
         <<"s","p","o","r","t","s">>,
         <<"f","o","o","t","b","a","l","l">>,
         <<"b","a","s","k","e","t","b","a","l","l">>,
         <<"s","o","c","c","e","r">>,
         <<"t","e","n","n","i","s">>,
         <<"g","o","l","f">>>>],
    [category |-> "arts", keywords |-> <<
         <<"a","r","t">>,
         <<"m","u","s","e","u","m">>,
         <<"g","a","l","l","e","r","y">>,
         <<"e","x","h","i","b","i","t","i","o","n">>,
         <<"t","h","e","a","t","e","r">>,
         <<"p","e","r","f","o","r","m","a","n","c","e">>,
         <<"d","a","n","c","e">>,
         <<"b","a","l","l","e","t">>,
         <<"o","p","e","r","a">>,
         <<"s","c","u","l","p","t","u","r","e">>>>],
    [category |-> "technology", keywords |-> <<
         <<"t","e","c","h">>,
         <<"c","o","d","i","n","g">>,
         <<"h","a","c","k","a","t","h","o","n">>,
         <<"c","o","n","f","e","r","e","n","c","e">>,
         <<"w","o","r","k","s","h","o","p">>,
         <<"a","i">>,
         <<"s","t","a","r","t","u","p">>,
         <<"p","r","o","g","r","a","m","m","i","n","g">>,
         <<"s","o","f","t","w","a","r","e">>,
         <<"d","i","g","i","t","a","l">>>>],
    [category |-> "food", keywords |-> <<
         <<"f","o","o","d">>,
         <<"c","o","o","k","i","n","g">>,
         <<"t","a","s","t","i","n","g">>,
         <<"r","e","s","t","a","u","r","a","n","t">>,
         <<"c","u","l","i","n","a","r","y">>,
         <<"w","i","n","e">>,
         <<"b","e","e","r">>,
         <<"c","h","e","f">>,
         <<"d","i","n","i","n","g">>,
         <<"c","u","i","s","i","n","e">>>>],
    [category |-> "education", keywords |-> <<
         <<"w","o","r","k","s","h","o","p">>,
         <<"s","e","m","i","n","a","r">>,
         <<"l","e","c","t","u","r","e">>,
         <<"c","o","u","r","s","e">>,
         <<"t","r","a","i","n","i","n","g">>,
         <<"w","e","b","i","n","a","r">>,
         <<"c","l","a","s","s">>,
         <<"l","e","a","r","n","i","n","g">>,
         <<"t","u","t","o","r","i","a","l">>>>],
    [category |-> "networking", keywords |-> <<
         <<"n","e","t","w","o","r","k","i","n","g">>,
         <<"m","e","e","t","u","p">>,
         <<"p","r","o","f","e","s","s","i","o","n","a","l">>,
         <<"b","u","s","i","n","e","s","s">>,
         <<"c","a","r","e","e","r">>,
         <<"e","n","t","r","e","p","r","e","n","e","u","r">>,
         <<"c","o","r","p","o","r","a","t","e">>>>],
    [category |-> "other", keywords |-> <<>>]
>>

\* any(keyword in text for keyword in keywords)
AnyKeyword(text, keywords) ==
    \E k \in 1..Len(keywords) : Contains(text, keywords[k])

RECURSIVE CategorizeFrom_LastMatch(_, _)
\* a loop that goes on after a match: the last matching category wins
CategorizeFrom_LastMatch(text, i) ==
    IF i > Len(EVENT_CATEGORIES) THEN "other"
    ELSE LET later == CategorizeFrom_LastMatch(text, i + 1)
         IN  IF later # "other" THEN later
             ELSE IF AnyKeyword(text, EVENT_CATEGORIES[i].keywords)
                  THEN EVENT_CATEGORIES[i].category
                  ELSE "other"

RECURSIVE CategorizeFrom(_, _)
\* the for loop of categorize_event from the i-th table entry on
CategorizeFrom(text, i) ==
    IF i > Len(EVENT_CATEGORIES) THEN "other"
    ELSE IF AnyKeyword(text, EVENT_CATEGORIES[i].keywords)
         THEN EVENT_CATEGORIES[i].category
         ELSE CategorizeFrom(text, i + 1)

categorize_event(title, description) ==
    CategorizeFrom(lower(title \o <<" ">> \o description), 1)

-----------------------------------------------------------------------------
(* datetime *)

\* A naive datetime: a calendar date and the minute of the day.
DT(y, m, d, mi) == [year |-> y, month |-> m, day |-> d, minute |-> mi]

\* parse_event_datetime's None: no resolved time
NoDateTime == DT(0, 0, 0, 0)

\* the outcome of a datetime operation that raises ValueError
ValueError == DT(-1, 0, 0, 0)

IsLeap(y) == (y % 4 = 0 /\ y % 100 # 0) \/ y % 400 = 0

DaysInMonth(y, m) ==
    IF m = 2 THEN (IF IsLeap(y) THEN 29 ELSE 28)
    ELSE IF m \in {4, 6, 9, 11} THEN 30 ELSE 31

ValidDate(y, m, d) == m \in 1..12 /\ d \in 1..DaysInMonth(y, m)

\* datetime's a < b
Before(a, b) ==
    \/ a.year < b.year
    \/ a.year = b.year /\ a.month < b.month
    \/ a.year = b.year /\ a.month = b.month /\ a.day < b.day
    \/ a.year = b.year /\ a.month = b.month /\ a.day = b.day /\ a.minute < b.minute

\* the day after
NextDay(a) ==
    IF a.day < DaysInMonth(a.year, a.month) THEN [a EXCEPT !.day = a.day + 1]
    ELSE IF a.month < 12 THEN [a EXCEPT !.month = a.month + 1, !.day = 1]
    ELSE [a EXCEPT !.year = a.year + 1, !.month = 1, !.day = 1]

RECURSIVE AddDays(_, _)
AddDays(a, n) == IF n = 0 THEN a ELSE AddDays(NextDay(a), n - 1)

\* a + timedelta(days=d, hours=h, minutes=mi)
PlusTimedelta(a, d, h, mi) ==
    LET total == a.minute + 60 * h + mi
    IN  AddDays([a EXCEPT !.minute = total % 1440], d + (total \div 1440))

\* datetime.replace(year=y): ValueError when the date does not exist in year y
ReplaceYear(a, y) ==
    IF ValidDate(y, a.month, a.day) THEN [a EXCEPT !.year = y] ELSE ValueError

-----------------------------------------------------------------------------
(* parse_event_datetime *)

(* A date/time text, as far as strptime and dateutil read it: the shape of the *)
(* text (kind) and the fields written in it; year 0 is a text with no year.    *)
(* kind: "empty" is '', "tba" is 'Date/Time TBA', the five pattern kinds are   *)
(* the texts the five strptime patterns accept, "free" is a text only dateutil *)
(* reads, "free_tz" one dateutil reads with a time zone, "unparseable" one     *)
(* neither reads.                                                              *)
DateText(kind, y, m, d, mi) ==
    [kind |-> kind, year |-> y, month |-> m, day |-> d, minute |-> mi]

EmptyText == DateText("empty", 0, 0, 0, 0)

DateTimeTBA == DateText("tba", 0, 0, 0, 0)

\* the kinds of text the entries of `patterns` accept, in the list's order
patterns == <<"weekday_long", "month_long", "numeric", "iso", "weekday_noyear">>

\* the year strptime gives a text without one
StrptimeDefaultYear == 1900

\* datetime.strptime(date_string, patterns[k]): ValueError when the text does not match
strptime(ds, k) ==
    IF ds.kind # patterns[k] THEN ValueError
    ELSE LET y == IF patterns[k] = "weekday_noyear" THEN StrptimeDefaultYear ELSE ds.year
         IN  IF ValidDate(y, ds.month, ds.day)
             THEN DT(y, ds.month, ds.day, ds.minute) ELSE ValueError

\* HandlePast adding one year to the parsed year
HandlePast_PlusOneYear(parsed_date, current) ==
    IF Before(parsed_date, current)
    THEN ReplaceYear(parsed_date, parsed_date.year + 1)
    ELSE parsed_date

\* "Handle past dates": a parsed date before now gets the year after the current one
HandlePast(parsed_date, current) ==
    IF Before(parsed_date, current)
    THEN ReplaceYear(parsed_date, current.year + 1)
    ELSE parsed_date

\* the fallback to dateutil's parser (fuzzy=True); any exception gives None
DateutilFallback(ds, current) ==
    IF ds.kind \in {"unparseable", "empty", "tba"} THEN NoDateTime
    ELSE IF ds.kind = "free_tz" THEN NoDateTime  \* aware < naive raises TypeError
    ELSE LET y == IF ds.year = 0 \/ ds.kind = "weekday_noyear"
                  THEN current.year ELSE ds.year  \* dateutil's default is today
         IN  IF ~ValidDate(y, ds.month, ds.day) THEN NoDateTime
             ELSE LET r == HandlePast(DT(y, ds.month, ds.day, ds.minute), current)
                  IN  IF r = ValueError THEN NoDateTime ELSE r

RECURSIVE TryPatterns(_, _, _)
\* the loop over `patterns` from the k-th on, then the fallback
TryPatterns(ds, current, k) ==
    IF k > Len(patterns) THEN DateutilFallback(ds, current)
    ELSE LET parsed_date == strptime(ds, k)
         IN  IF parsed_date = ValueError THEN TryPatterns(ds, current, k + 1)
             ELSE LET r == HandlePast(parsed_date, current)
                  IN  IF r = ValueError THEN TryPatterns(ds, current, k + 1) ELSE r

\* parse_event_datetime(date_string, city) with datetime.now() = current
parse_event_datetime(date_string, current) ==
    IF date_string.kind \in {"empty", "tba"} THEN NoDateTime
    ELSE TryPatterns(date_string, current, 1)

-----------------------------------------------------------------------------
(* parse_event_location *)

prefixes_to_remove == <<<<"L","o","c","a","t","i","o","n",":">>, <<"V","e","n","u","e",":">>, <<"A","d","d","r","e","s","s",":">>, <<"W","h","e","r","e",":">>>>

GenericLocations == {<<"t","b","a">>, <<"t","o"," ","b","e"," ","a","n","n","o","u","n","c","e","d">>, <<"o","n","l","i","n","e">>, <<"v","i","r","t","u","a","l">>}

\* "if len(location) < 5"
MinLocationLen == 5

RECURSIVE RemovePrefixes(_, _)
\* the loop over prefixes_to_remove from the i-th on
RemovePrefixes(location, i) ==
    IF i > Len(prefixes_to_remove) THEN location
    ELSE IF startswith(location, prefixes_to_remove[i])
         THEN RemovePrefixes(
                  strip(SubSeq(location, Len(prefixes_to_remove[i]) + 1, Len(location))),
                  i + 1)
         ELSE RemovePrefixes(location, i + 1)

\* parse_event_location with "len(location) <= 5"
parse_event_location_AtMost5(location_string, c) ==
    IF location_string = <<>> \/ strip(location_string) = c
    THEN <<"D","o","w","n","t","o","w","n"," ">> \o c
    ELSE LET location == RemovePrefixes(strip(location_string), 1)
         IN  IF Len(location) <= MinLocationLen \/ lower(location) \in GenericLocations
             THEN c \o <<" ","A","r","e","a">>
             ELSE location

parse_event_location(location_string, c) ==
    IF location_string = <<>> \/ strip(location_string) = c
    THEN <<"D","o","w","n","t","o","w","n"," ">> \o c
    ELSE LET location == RemovePrefixes(strip(location_string), 1)
         IN  IF Len(location) < MinLocationLen \/ lower(location) \in GenericLocations
             THEN c \o <<" ","A","r","e","a">>
             ELSE location

-----------------------------------------------------------------------------
(* What a fetched page shows of one event card *)

\* card.select_one(sel) / card.find(...): no element
NoElem == [found |-> FALSE, text |-> <<>>, name |-> "", href |-> <<>>, link |-> <<>>]

\* an element: its tag name, its text, its href attribute (<<>>: none); link is
\* what elem.find('a') gives: <<>> for no inner link, <<h>> for one with href h
Elem(name, text, href) ==
    [found |-> TRUE, text |-> text, name |-> name, href |-> href, link |-> <<>>]

\* an element holding a date/time text
NoDateElem == [found |-> FALSE, text |-> EmptyText]

DateElem(ds) == [found |-> TRUE, text |-> ds]

\* elem.get_text(strip=True)
get_text(elem) == strip(elem.text)

\* index of the first selector of the list that selects an element, 0 if none does
FirstFound(elems) ==
    IF \E i \in 1..Len(elems) : elems[i].found
    THEN CHOOSE i \in 1..Len(elems) :
             elems[i].found /\ \A k \in 1..(i - 1) : ~elems[k].found
    ELSE 0

\* "if event_url.startswith('/')": a relative link is anchored to the source's origin
AbsoluteUrl(href, origin) ==
    IF startswith(href, <<"/">>) THEN origin \o href ELSE href

\* desc_text[:200] + "..." if len(desc_text) > 200 else desc_text
MaxDescriptionLen == 200

TruncateDescription(desc_text) ==
    IF Len(desc_text) > MaxDescriptionLen
    THEN Prefix(desc_text, MaxDescriptionLen) \o <<".",".",".">>
    ELSE desc_text

\* "if desc_text and len(desc_text) > 20"
MinDescriptionLen == 20

\* an event record
EventRecord(title, date_time, parsed_datetime, location, description, category, event_url) ==
    [title |-> title, date_time |-> date_time, parsed_datetime |-> parsed_datetime,
     location |-> location, description |-> description, category |-> category,
     event_url |-> event_url]

-----------------------------------------------------------------------------
(* scrape_eventbrite_events *)

EventbriteOrigin == <<"h","t","t","p","s",":","/","/","w","w","w",".","e","v","e","n","t","b","r","i","t","e",".","c","o","m">>

\* the three URL patterns, in the order they are tried
eventbrite_urls(c) == <<
    <<"h","t","t","p","s",":","/","/","w","w","w",".","e","v","e","n","t","b","r","i","t","e",".","c","o","m","/","d","/">> \o replace(lower(c), " ", <<"-">>) \o <<"/","e","v","e","n","t","s","/">>,
    <<"h","t","t","p","s",":","/","/","w","w","w",".","e","v","e","n","t","b","r","i","t","e",".","c","o","m","/","d","/">> \o lower(c) \o <<"/","e","v","e","n","t","s","/">>,
    <<"h","t","t","p","s",":","/","/","w","w","w",".","e","v","e","n","t","b","r","i","t","e",".","c","o","m","/","e","/","s","e","a","r","c","h","?","q","=">> \o replace(c, " ", <<"%","2","0">>) >>

\* "for card in event_cards[:8]"
EventbriteCardLimit == 8

\* the first selector of `selectors` that selects any card decides event_cards;
\* a page is the list of what each of the 7 selectors selects
SelectEventCards(page) ==
    IF \E i \in 1..Len(page) : page[i] # <<>>
    THEN page[CHOOSE i \in 1..Len(page) :
                  page[i] # <<>> /\ \A k \in 1..(i - 1) : page[k] = <<>>]
    ELSE <<>>

\* title and event_url of a card: the first title selector that selects an element
EventbriteTitle(card) ==
    LET i == FirstFound(card.title)
    IN  IF i = 0 THEN [title |-> <<>>, event_url |-> <<>>]
        ELSE LET title_elem == card.title[i]
             IN  [title |-> get_text(title_elem),
                  event_url |->
                      IF title_elem.name = "a" /\ title_elem.href # <<>>
                      THEN AbsoluteUrl(title_elem.href, EventbriteOrigin)
                      ELSE <<>>]

RECURSIVE EventbriteDate(_, _, _)
\* the loop over date_selectors from the i-th on; date_time is the text so far
EventbriteDate(elems, i, date_time) ==
    IF i > Len(elems) THEN date_time
    ELSE IF elems[i].found
         THEN IF elems[i].text # EmptyText /\ elems[i].text # DateTimeTBA
              THEN elems[i].text
              ELSE EventbriteDate(elems, i + 1, elems[i].text)
         ELSE EventbriteDate(elems, i + 1, date_time)

RECURSIVE EventbriteLocation(_, _, _)
\* the loop over location_selectors from the i-th on
EventbriteLocation(elems, i, c) ==
    IF i > Len(elems) THEN <<"D","o","w","n","t","o","w","n"," ">> \o c
    ELSE IF elems[i].found /\ get_text(elems[i]) # <<>>
         THEN parse_event_location(get_text(elems[i]), c)
         ELSE EventbriteLocation(elems, i + 1, c)

RECURSIVE EventbriteDescription(_, _)
\* the loop over desc_selectors from the i-th on
EventbriteDescription(elems, i) ==
    IF i > Len(elems) THEN <<"N","o"," ","d","e","s","c","r","i","p","t","i","o","n"," ","a","v","a","i","l","a","b","l","e">>
    ELSE IF elems[i].found /\ Len(get_text(elems[i])) > MinDescriptionLen
         THEN TruncateDescription(get_text(elems[i]))
         ELSE EventbriteDescription(elems, i + 1)

\* the body of the loop over cards: the records one card adds (none or one)
EventbriteCard(card, c, current) ==
    LET t == EventbriteTitle(card)
        date_time == EventbriteDate(card.date, 1, DateTimeTBA)
        description == EventbriteDescription(card.description, 1)
    IN  IF card.raises THEN <<>>           \* except Exception: continue
        ELSE IF t.title = <<>> THEN <<>>   \* if not title: continue
        ELSE << EventRecord(
                    t.title, date_time, parse_event_datetime(date_time, current),
                    EventbriteLocation(card.location, 1, c), description,
                    categorize_event(t.title, description),
                    IF t.event_url # <<>> THEN t.event_url ELSE eventbrite_urls(c)[1]) >>

RECURSIVE EventbriteCards(_, _, _)
EventbriteCards(cards, c, current) ==
    IF cards = <<>> THEN <<>>
    ELSE EventbriteCard(Head(cards), c, current) \o EventbriteCards(Tail(cards), c, current)

\* the try block of one iteration of the loop over urls: requests.get or
\* raise_for_status raises on a failed fetch, before any card is read; else
\* the records the page's cards add to events
EventbriteAttempt(outcome, c, current) ==
    IF outcome.status # "ok" THEN [raised |-> TRUE, events |-> <<>>]
    ELSE [raised |-> FALSE,
          events |-> EventbriteCards(
                         Take(SelectEventCards(outcome.page), EventbriteCardLimit),
                         c, current)]

\* an except clause that lets the exception through
ExceptContinue_Reraise(attempt) == attempt

\* "except Exception as e: continue": the exception ends there
ExceptContinue(attempt) == [attempt EXCEPT !.raised = FALSE]

-----------------------------------------------------------------------------
(* scrape_meetup_events *)

MeetupOrigin == <<"h","t","t","p","s",":","/","/","w","w","w",".","m","e","e","t","u","p",".","c","o","m">>

meetup_url(c) ==
    <<"h","t","t","p","s",":","/","/","w","w","w",".","m","e","e","t","u","p",".","c","o","m","/","f","i","n","d","/","?","k","e","y","w","o","r","d","s","=","&","l","o","c","a","t","i","o","n","=">> \o replace(c, " ", <<"%","2","0">>)

\* "for card in event_cards[:6]"
MeetupCardLimit == 6

\* the title element: the first heading or link whose class matches, else the first link
MeetupTitleElem(card) ==
    IF card.title_by_class.found THEN card.title_by_class ELSE card.first_link

MeetupEventUrl(title_elem) ==
    IF title_elem.name = "a" /\ title_elem.href # <<>>
    THEN AbsoluteUrl(title_elem.href, MeetupOrigin)
    ELSE IF title_elem.link # <<>> /\ title_elem.link[1] # <<>>
         THEN AbsoluteUrl(title_elem.link[1], MeetupOrigin)
         ELSE <<>>

MeetupDescription(desc_elem) ==
    IF desc_elem.found /\ Len(get_text(desc_elem)) > MinDescriptionLen
    THEN TruncateDescription(get_text(desc_elem))
    ELSE <<"M","e","e","t","u","p"," ","e","v","e","n","t"," ","-"," ","c","h","e","c","k"," ","M","e","e","t","u","p",".","c","o","m"," ","f","o","r"," ","f","u","l","l"," ","d","e","t","a","i","l","s">>

\* the body of the loop over cards: the records one card adds (none or one)
MeetupCard(card, c, current) ==
    LET title_elem == MeetupTitleElem(card)
        title == get_text(title_elem)
        event_url == MeetupEventUrl(title_elem)
        date_time == IF card.date.found THEN card.date.text ELSE DateTimeTBA
        description == MeetupDescription(card.description)
    IN  IF card.raises THEN <<>>                \* except Exception: continue
        ELSE IF ~title_elem.found THEN <<>>     \* if not title_elem: continue
        ELSE << EventRecord(
                    title, date_time, parse_event_datetime(date_time, current),
                    parse_event_location(
                        IF card.location.found THEN get_text(card.location) ELSE c, c),
                    description, categorize_event(title, description),
                    IF event_url # <<>> THEN event_url ELSE meetup_url(c)) >>

RECURSIVE MeetupCards(_, _, _)
MeetupCards(cards, c, current) ==
    IF cards = <<>> THEN <<>>
    ELSE MeetupCard(Head(cards), c, current) \o MeetupCards(Tail(cards), c, current)

\* the try block of scrape_meetup_events: requests.get or raise_for_status
\* raises on a failed fetch, before any card is read
MeetupAttempt(outcome, c, current) ==
    IF outcome.status # "ok" THEN [raised |-> TRUE, events |-> <<>>]
    ELSE [raised |-> FALSE,
          events |-> MeetupCards(Take(outcome.page, MeetupCardLimit), c, current)]

\* "except Exception as e: print(...)": the exception ends there
ExceptPrint(attempt) == [attempt EXCEPT !.raised = FALSE]

\* scrape_meetup_events: what it returns, or that it raised
scrape_meetup_events(outcome, c, current) ==
    ExceptPrint(MeetupAttempt(outcome, c, current))

-----------------------------------------------------------------------------
(* create_weekend_digest *)

\* "top_events = events[:3]"
DigestTop == 3

\* "event['description'][:100]"
DigestDescriptionLen == 100

NoEventsMessage == <<"N","o"," ","e","v","e","n","t","s"," ","f","o","u","n","d"," ","f","o","r"," ","t","h","i","s"," ","w","e","e","k","e","n","d",".">>

\* an entry whose description gets the ellipsis only when it was cut
DigestEntry_EllipsisIfCut(i, event) ==
    [number |-> i, title |-> event.title, date_time |-> event.date_time,
     location |-> event.location,
     description |-> IF Len(event.description) > DigestDescriptionLen
                     THEN Prefix(event.description, DigestDescriptionLen) \o <<".",".",".">>
                     ELSE event.description]

\* one numbered entry of the digest: the four lines written for top_events[i]
DigestEntry(i, event) ==
    [number |-> i, title |-> event.title, date_time |-> event.date_time,
     location |-> event.location,
     description |-> Prefix(event.description, DigestDescriptionLen) \o <<".",".",".">>]

(* The digest text, by its parts: the opening text (the whole text when there *)
(* are no events), the count written in the second line, the numbered        *)
(* entries in order, the closing line.                                       *)
create_weekend_digest(evs) ==
    IF evs = <<>>
    THEN [opening |-> NoEventsMessage, count |-> 0, entries |-> <<>>, closing |-> <<>>]
    ELSE LET top_events == Take(evs, DigestTop)
         IN  [opening |-> <<"W","e","e","k","e","n","d"," ","P","l","a","n"," ","D","i","g","e","s","t">>,
              count |-> Len(top_events),
              entries |-> [i \in 1..Len(top_events) |-> DigestEntry(i, top_events[i])],
              closing |-> <<"H","a","v","e"," ","a"," ","g","r","e","a","t"," ","w","e","e","k","e","n","d"," ","e","x","p","l","o","r","i","n","g"," ","t","h","e","s","e"," ","a","m","a","z","i","n","g"," ","e","v","e","n","t","s","!">>]

-----------------------------------------------------------------------------
(* get_events_from_multiple_sources *)

\* the threshold taken to be Eventbrite's card limit
MeetupThreshold_CardLimit == EventbriteCardLimit

\* "if len(all_events) < 5": Meetup is tried when fewer records than this were found
MeetupThreshold == 5

\* "return unique_events[:10]"
MaxEvents == 10

\* a title key that keeps the case
title_key_CaseSensitive(event) == strip(event.title)

\* event['title'].lower().strip()
title_key(event) == strip(lower(event.title))

RECURSIVE UniqueEvents(_, _)
\* the deduplication loop: evs still to visit, seen_titles so far
UniqueEvents(evs, seen_titles) ==
    IF evs = <<>> THEN <<>>
    ELSE IF title_key(Head(evs)) \in seen_titles
         THEN UniqueEvents(Tail(evs), seen_titles)
         ELSE <<Head(evs)>> \o UniqueEvents(Tail(evs), seen_titles \cup {title_key(Head(evs))})

\* strftime("%A, %B %d, %Y at <time>") of a date: a text of the first pattern
Strftime(a, minute) == DateText("weekday_long", a.year, a.month, a.day, minute)

\* the demo events, with base_date = now + one day
DemoEvents(c, current) ==
    LET base_date == PlusTimedelta(current, 1, 0, 0)
    IN  << EventRecord(
               <<"C","o","m","m","u","n","i","t","y"," ","A","r","t"," ","F","e","s","t","i","v","a","l"," ","-"," ">> \o c,
               Strftime(PlusTimedelta(base_date, 1, 0, 0), 14 * 60),
               PlusTimedelta(base_date, 1, 14, 0),
               <<"D","o","w","n","t","o","w","n"," ">> \o c,
               <<"J","o","i","n"," ","u","s"," ","f","o","r"," ","a"," ","v","i","b","r","a","n","t"," ","c","o","m","m","u","n","i","t","y"," ","a","r","t"," ","f","e","s","t","i","v","a","l"," ","f","e","a","t","u","r","i","n","g"," ","l","o","c","a","l"," ","a","r","t","i","s","t","s",","," ","l","i","v","e"," ","m","u","s","i","c",","," ","a","n","d"," ","f","o","o","d"," ","v","e","n","d","o","r","s","."," ","E","x","p","e","r","i","e","n","c","e"," ","t","h","e"," ","b","e","s","t"," ","o","f"," ","l","o","c","a","l"," ","c","r","e","a","t","i","v","i","t","y"," ","w","i","t","h"," ","i","n","t","e","r","a","c","t","i","v","e"," ","e","x","h","i","b","i","t","s",","," ","w","o","r","k","s","h","o","p","s",","," ","a","n","d"," ","p","e","r","f","o","r","m","a","n","c","e","s",".">>,
               "arts",
               <<"h","t","t","p","s",":","/","/","w","w","w",".","e","v","e","n","t","b","r","i","t","e",".","c","o","m","/","d","/">> \o replace(lower(c), " ", <<"-">>) \o <<"/","e","v","e","n","t","s","/">>),
           EventRecord(
               <<"T","e","c","h"," ","I","n","n","o","v","a","t","i","o","n"," ","M","e","e","t","u","p"," ","-"," ">> \o c,
               Strftime(PlusTimedelta(base_date, 3, 0, 0), 18 * 60),
               PlusTimedelta(base_date, 3, 18, 0),
               c \o <<" ","C","o","n","v","e","n","t","i","o","n"," ","C","e","n","t","e","r">>,
               <<"N","e","t","w","o","r","k"," ","w","i","t","h"," ","l","o","c","a","l"," ","t","e","c","h"," ","p","r","o","f","e","s","s","i","o","n","a","l","s"," ","a","n","d"," ","l","e","a","r","n"," ","a","b","o","u","t"," ","t","h","e"," ","l","a","t","e","s","t"," ","t","r","e","n","d","s"," ","i","n"," ","a","r","t","i","f","i","c","i","a","l"," ","i","n","t","e","l","l","i","g","e","n","c","e",","," ","b","l","o","c","k","c","h","a","i","n",","," ","a","n","d"," ","s","o","f","t","w","a","r","e"," ","d","e","v","e","l","o","p","m","e","n","t","."," ","F","e","a","t","u","r","i","n","g"," ","k","e","y","n","o","t","e"," ","s","p","e","a","k","e","r","s"," ","a","n","d"," ","n","e","t","w","o","r","k","i","n","g"," ","o","p","p","o","r","t","u","n","i","t","i","e","s",".">>,
               "technology",
               <<"h","t","t","p","s",":","/","/","w","w","w",".","m","e","e","t","u","p",".","c","o","m","/","f","i","n","d","/","?","k","e","y","w","o","r","d","s","=","t","e","c","h","&","l","o","c","a","t","i","o","n","=">> \o replace(c, " ", <<"%","2","0">>)),
           EventRecord(
               <<"W","e","e","k","e","n","d"," ","F","a","r","m","e","r","s"," ","M","a","r","k","e","t"," ","-"," ">> \o c,
               Strftime(PlusTimedelta(base_date, 2, 0, 0), 8 * 60),
               PlusTimedelta(base_date, 2, 8, 0),
               c \o <<" ","C","i","t","y"," ","S","q","u","a","r","e">>,
               <<"F","r","e","s","h"," ","p","r","o","d","u","c","e",","," ","l","o","c","a","l"," ","c","r","a","f","t","s",","," ","a","n","d"," ","d","e","l","i","c","i","o","u","s"," ","f","o","o","d"," ","f","r","o","m"," ","l","o","c","a","l"," ","v","e","n","d","o","r","s"," ","e","v","e","r","y"," ","w","e","e","k","e","n","d","."," ","S","u","p","p","o","r","t"," ","l","o","c","a","l"," ","f","a","r","m","e","r","s"," ","a","n","d"," ","a","r","t","i","s","a","n","s"," ","w","h","i","l","e"," ","e","n","j","o","y","i","n","g"," ","l","i","v","e"," ","m","u","s","i","c"," ","a","n","d"," ","f","a","m","i","l","y","-","f","r","i","e","n","d","l","y"," ","a","c","t","i","v","i","t","i","e","s",".">>,
               "food",
               <<"h","t","t","p","s",":","/","/","w","w","w",".","e","v","e","n","t","b","r","i","t","e",".","c","o","m","/","d","/">> \o replace(lower(c), " ", <<"-">>) \o <<"/","f","o","o","d","-","-","a","n","d","-","-","d","r","i","n","k","-","-","e","v","e","n","t","s","/">>),
           EventRecord(
               <<"L","i","v","e"," ","J","a","z","z"," ","N","i","g","h","t"," ","-"," ">> \o c,
               Strftime(PlusTimedelta(base_date, 4, 0, 0), 20 * 60),
               PlusTimedelta(base_date, 4, 20, 0),
               <<"B","l","u","e"," ","N","o","t","e"," ","C","a","f","e",","," ">> \o c,
               <<"A","n"," ","e","v","e","n","i","n","g"," ","o","f"," ","s","m","o","o","t","h"," ","j","a","z","z"," ","f","e","a","t","u","r","i","n","g"," ","l","o","c","a","l"," ","m","u","s","i","c","i","a","n","s"," ","a","n","d"," ","g","u","e","s","t"," ","p","e","r","f","o","r","m","e","r","s","."," ","E","n","j","o","y"," ","c","r","a","f","t"," ","c","o","c","k","t","a","i","l","s"," ","a","n","d"," ","a","p","p","e","t","i","z","e","r","s"," ","w","h","i","l","e"," ","l","i","s","t","e","n","i","n","g"," ","t","o"," ","t","h","e"," ","b","e","s","t"," ","j","a","z","z"," ","m","u","s","i","c"," ","i","n"," ","t","h","e"," ","c","i","t","y",".">>,
               "music",
               <<"h","t","t","p","s",":","/","/","w","w","w",".","e","v","e","n","t","b","r","i","t","e",".","c","o","m","/","d","/">> \o replace(lower(c), " ", <<"-">>) \o <<"/","m","u","s","i","c","-","-","e","v","e","n","t","s","/">>),
           EventRecord(
               <<"B","u","s","i","n","e","s","s"," ","N","e","t","w","o","r","k","i","n","g"," ","B","r","e","a","k","f","a","s","t"," ","-"," ">> \o c,
               Strftime(PlusTimedelta(base_date, 5, 0, 0), 7 * 60 + 30),
               PlusTimedelta(base_date, 5, 7, 30),
               c \o <<" ","B","u","s","i","n","e","s","s"," ","C","e","n","t","e","r">>,
               <<"C","o","n","n","e","c","t"," ","w","i","t","h"," ","l","o","c","a","l"," ","e","n","t","r","e","p","r","e","n","e","u","r","s",","," ","b","u","s","i","n","e","s","s"," ","o","w","n","e","r","s",","," ","a","n","d"," ","p","r","o","f","e","s","s","i","o","n","a","l","s"," ","o","v","e","r"," ","b","r","e","a","k","f","a","s","t","."," ","E","x","c","h","a","n","g","e"," ","i","d","e","a","s",","," ","b","u","i","l","d"," ","p","a","r","t","n","e","r","s","h","i","p","s",","," ","a","n","d"," ","g","r","o","w"," ","y","o","u","r"," ","p","r","o","f","e","s","s","i","o","n","a","l"," ","n","e","t","w","o","r","k",".">>,
               "networking",
               <<"h","t","t","p","s",":","/","/","w","w","w",".","m","e","e","t","u","p",".","c","o","m","/","f","i","n","d","/","?","k","e","y","w","o","r","d","s","=","n","e","t","w","o","r","k","i","n","g","&","l","o","c","a","t","i","o","n","=">> \o replace(c, " ", <<"%","2","0">>)) >>

\* from "Remove duplicates" to the return: deduplicate, fall back to the demo
\* events when nothing is left, cut to MaxEvents
UniqueOrDemo(evs, c, current) ==
    LET unique_events == UniqueEvents(evs, {})
    IN  Take(IF unique_events = <<>> THEN DemoEvents(c, current) ELSE unique_events,
             MaxEvents)

-----------------------------------------------------------------------------
(* The environment: the request's city, the clock, and what the sites serve *)

\* the largest number of cards on a served Eventbrite page
MaxEventbriteCards == 9

\* the largest number of cards on a served Meetup page
MaxMeetupCards == 7

\* request.form.get('city', 'Detroit'): no field, a blank one, a padded name
FormCities == {<<>>, <<<<" "," "," ">>>>, <<<<" ","D","e","t","r","o","i","t"," ">>>>}

DefaultCity == <<"D","e","t","r","o","i","t">>

\* the readings of datetime.now() during a request: an ordinary day, and the
\* last half hour of a year before a leap year
Nows == {DT(2026, 11, 1, 12 * 60), DT(2027, 12, 31, 23 * 60 + 30)}

upperChar(c) ==
    IF \E i \in 1..Len(LowerChars) : LowerChars[i] = c
    THEN UpperChars[CHOOSE i \in 1..Len(LowerChars) : LowerChars[i] = c]
    ELSE c

upper(s) == [i \in 1..Len(s) |-> upperChar(s[i])]

TitlePool == <<
    <<"J","a","z","z"," ","N","i","g","h","t">>, <<"A","r","t"," ","W","a","l","k">>, <<"T","e","c","h"," ","T","a","l","k">>, <<"W","i","n","e"," ","T","a","s","t","i","n","g">>, <<"C","i","t","y"," ","R","u","n">>,
    <<"B","o","o","k"," ","C","l","u","b">>, <<"C","a","r","e","e","r"," ","F","a","i","r">>, <<"S","o","c","c","e","r"," ","M","a","t","c","h">>, <<"Y","o","g","a"," ","H","o","u","r">>, <<"F","i","l","m"," ","C","l","u","b">>,
    <<"Q","u","i","z"," ","E","v","e","n","i","n","g">> >>

DatePool == <<
    DateTimeTBA,
    DateText("iso", 2026, 8, 31, 14 * 60),
    DateText("weekday_noyear", 0, 8, 31, 14 * 60),
    DateText("weekday_long", 2029, 12, 31, 20 * 60),
    DateText("numeric", 2024, 2, 29, 9 * 60),
    DateText("free", 2020, 5, 17, 18 * 60),
    DateText("free_tz", 2027, 6, 1, 18 * 60),
    DateText("unparseable", 0, 0, 0, 0),
    EmptyText,
    DateText("month_long", 2028, 2, 29, 19 * 60),
    DateText("weekday_noyear", 0, 2, 29, 8 * 60) >>

LocationPool == <<
    <<"V","e","n","u","e",":"," ","T","B","A">>, <<"L","o","c","a","t","i","o","n",":"," ","F","o","x"," ","T","h","e","a","t","r","e">>, <<"D","e","t","r","o","i","t">>, <<>>, <<"o","n","l","i","n","e">>,
    <<" "," ","A","d","d","r","e","s","s",":"," ","1"," ","M","a","i","n"," ","S","t"," ">>, <<"H","a","r","t"," ","P","l","a","z","a">> >>

DescriptionPool == <<
    <<"L","i","v","e"," ","j","a","z","z"," ","a","n","d"," ","w","i","n","e"," ","t","a","s","t","i","n","g"," ","d","o","w","n","t","o","w","n">>,
    <<"A"," ","s","h","o","r","t"," ","o","n","e">>,
    <<"A","n"," ","e","v","e","n","i","n","g"," ","w","o","r","k","s","h","o","p"," ","o","n"," ","a","r","t"," ","a","n","d"," ","a","i">>,
    <<>>,
    <<"M","e","e","t"," ","t","h","e"," ","n","e","i","g","h","b","o","u","r","s"," ","o","v","e","r"," ","a"," ","l","o","n","g"," ","w","a","l","k">> >>

\* a text longer than descriptions are kept
LongText == Rep("x", MaxDescriptionLen + 1)

Pick(pool, i) == pool[((i - 1) % Len(pool)) + 1]

\* a title as the page writes it: as is, or in capitals inside white space
TitleText(i, shouted) ==
    IF shouted THEN <<" "," ">> \o upper(Pick(TitlePool, i)) \o <<" ">> ELSE Pick(TitlePool, i)

NoElems(n) == [k \in 1..n |-> NoElem]

NoDateElems(n) == [k \in 1..n |-> NoDateElem]

\* an Eventbrite card whose fields sit under the first selector of each list
PlainCardA(i, shouted) ==
    [raises |-> FALSE,
     title |-> [NoElems(6) EXCEPT ![1] = Elem("a", TitleText(i, shouted),
                    IF shouted THEN <<"h","t","t","p","s",":","/","/","e","v","b",".","e","x","a","m","p","l","e","/","e","/","1">> ELSE <<"/","e","/","1">>)],
     date |-> [NoDateElems(5) EXCEPT ![1] = DateElem(Pick(DatePool, i))],
     location |-> [NoElems(4) EXCEPT ![1] = Elem("div", Pick(LocationPool, i), <<>>)],
     description |-> [NoElems(4) EXCEPT ![3] = Elem("p", Pick(DescriptionPool, i), <<>>)]]

\* Eventbrite cards that exercise the selector lists: a blank first title before
\* a good one, an extraction that raises, no title at all, fields under later
\* selectors behind blank or too short earlier ones
OddCardA(i) ==
    CASE i % 4 = 1 ->
           [PlainCardA(i, FALSE) EXCEPT
               !.title = [NoElems(6) EXCEPT ![2] = Elem("a", <<" "," ">>, <<"/","e","/","2">>),
                                            ![4] = Elem("a", Pick(TitlePool, i), <<"/","e","/","3">>)]]
      [] i % 4 = 2 -> [PlainCardA(i, FALSE) EXCEPT !.raises = TRUE]
      [] i % 4 = 3 -> [PlainCardA(i, FALSE) EXCEPT !.title = NoElems(6)]
      [] OTHER ->
           [raises |-> FALSE,
            title |-> [NoElems(6) EXCEPT ![5] = Elem("div", Pick(TitlePool, i), <<>>)],
            date |-> [NoDateElems(5) EXCEPT ![1] = DateElem(EmptyText),
                                            ![2] = DateElem(DateTimeTBA),
                                            ![4] = DateElem(Pick(DatePool, i + 1))],
            location |-> [NoElems(4) EXCEPT ![1] = Elem("div", <<" ">>, <<>>),
                                            ![3] = Elem("span", Pick(LocationPool, i + 1), <<>>)],
            description |-> [NoElems(4) EXCEPT ![1] = Elem("div", <<"T","o","o"," ","s","h","o","r","t">>, <<>>),
                                               ![4] = Elem("div", IF i = 8 THEN LongText
                                                             ELSE Pick(DescriptionPool, i + 2), <<>>)]]

NoCards == [k \in 1..7 |-> <<>>]

\* the Eventbrite pages served: what each of the 7 card selectors selects
EventbritePage(n, v) ==
    CASE v = 1 -> [NoCards EXCEPT ![1] = [i \in 1..n |-> PlainCardA(i, FALSE)]]
      [] v = 2 -> [NoCards EXCEPT
                      ![4] = [i \in 1..n |-> PlainCardA(((i - 1) % 3) + 1, i % 2 = 0)],
                      ![7] = IF n > 0 THEN <<PlainCardA(11, FALSE)>> ELSE <<>>]
      [] OTHER -> [NoCards EXCEPT ![7] = [i \in 1..n |-> OddCardA(i)]]

FailedFetches ==
    {[status |-> s, page |-> <<>>] : s \in {"network_error", "http_error", "timeout"}}

\* what a fetch of an Eventbrite URL can give
EventbriteOutcomes ==
    FailedFetches \cup
    {[status |-> "ok", page |-> EventbritePage(n, v)] : n \in 0..MaxEventbriteCards, v \in 1..3}

\* a Meetup card with a title element found by class
PlainCardB(i, shouted) ==
    [raises |-> FALSE,
     title_by_class |-> Elem("h3", TitleText(i, shouted), <<>>),
     first_link |-> Elem("a", <<"m","o","r","e">>, <<"/","f","i","n","d","/","m","o","r","e">>),
     date |-> DateElem(Pick(DatePool, i + 3)),
     location |-> Elem("span", Pick(LocationPool, i + 2), <<>>),
     description |-> Elem("p", Pick(DescriptionPool, i + 1), <<>>)]

\* Meetup cards off the beaten path: a title element with no text, an
\* extraction that raises, no title element, a card with nothing but a link
OddCardB(i) ==
    CASE i % 4 = 1 ->
           [PlainCardB(i, FALSE) EXCEPT
               !.title_by_class = [Elem("h2", <<" ">>, <<>>) EXCEPT !.link = <<<<"/","e","/","9">>>>]]
      [] i % 4 = 2 -> [PlainCardB(i, FALSE) EXCEPT !.raises = TRUE]
      [] i % 4 = 3 ->
           [PlainCardB(i, FALSE) EXCEPT !.title_by_class = NoElem, !.first_link = NoElem]
      [] OTHER ->
           [raises |-> FALSE,
            title_by_class |-> NoElem,
            first_link |-> Elem("a", Pick(TitlePool, i), <<"h","t","t","p","s",":","/","/","m","e","e","t","u","p",".","e","x","a","m","p","l","e","/","g","/","4">>),
            date |-> NoDateElem,
            location |-> NoElem,
            description |-> IF i = 4 THEN Elem("p", LongText, <<>>) ELSE NoElem]

\* the Meetup pages served: the cards find_all gives
MeetupPage(n, v) ==
    CASE v = 1 -> [i \in 1..n |-> PlainCardB(i, i % 2 = 1)]
      [] v = 2 -> [i \in 1..n |-> PlainCardB(i + 4, FALSE)]
      [] OTHER -> [i \in 1..n |-> OddCardB(i)]

\* what the fetch of the Meetup URL can give
MeetupOutcomes ==
    FailedFetches \cup
    {[status |-> "ok", page |-> MeetupPage(n, v)] : n \in 0..MaxMeetupCards, v \in 1..3}

-----------------------------------------------------------------------------
(* search_events: one request, fetch by fetch *)

NoCall == [fn |-> "none"]

NoResponse == [error |-> <<>>, city |-> <<>>, events |-> <<>>,
               digest |-> create_weekend_digest(<<>>), total_events |-> -1]

\* an exception that leaves the view: the server answers 500
ServerError == [NoResponse EXCEPT !.error = <<"I","n","t","e","r","n","a","l"," ","S","e","r","v","e","r"," ","E","r","r","o","r">>]

\* jsonify({'error': 'Please enter a city name'})
ErrorResponse ==
    [NoResponse EXCEPT !.error = <<"P","l","e","a","s","e"," ","e","n","t","e","r"," ","a"," ","c","i","t","y"," ","n","a","m","e">>]

\* the return of get_events_from_multiple_sources and the rest of search_events
Respond(evs, c, current) ==
    LET result == UniqueOrDemo(evs, c, current)
    IN  [error |-> <<>>, city |-> c, events |-> result,
         digest |-> create_weekend_digest(result), total_events |-> Len(result)]

\* an entry of the fetch log: the site, the URL, whether the fetch gave a page
Fetch(source, url, outcome) ==
    [source |-> source, url |-> url, ok |-> outcome.status = "ok"]

Init ==
    /\ pc = "idle"
    /\ city = <<>>
    /\ now \in Nows
    /\ urlIdx = 0
    /\ events = <<>>
    /\ meetup_events = <<>>
    /\ all_events = <<>>
    /\ fetches = <<>>
    /\ response = NoResponse
    /\ call = NoCall
    /\ ret = NoCall

\* the city the form gives: request.form.get('city', 'Detroit').strip()
FormCity(form) == strip(IF form = <<>> THEN DefaultCity ELSE form[1])

\* a search request with a blank city is refused
SearchRejected ==
    /\ pc = "idle"
    /\ \E form \in FormCities :
        /\ FormCity(form) = <<>>
        /\ city' = FormCity(form)
    /\ response' = ErrorResponse
    /\ pc' = "done"
    /\ UNCHANGED <<now, urlIdx, events, meetup_events, all_events, fetches, call, ret>>

\* a search request enters get_events_from_multiple_sources and
\* scrape_eventbrite_events, up to the first fetch
SearchStart ==
    /\ pc = "idle"
    /\ \E form \in FormCities :
        /\ FormCity(form) # <<>>
        /\ city' = FormCity(form)
    /\ pc' = "eventbrite"
    /\ urlIdx' = 1
    /\ events' = <<>>
    /\ meetup_events' = <<>>
    /\ all_events' = <<>>
    /\ UNCHANGED <<now, fetches, response, call, ret>>

\* one fetch of an Eventbrite URL and what follows it up to the next fetch:
\* the next URL when no record was extracted, else the return to
\* get_events_from_multiple_sources, which goes on to Meetup or returns
FetchEventbrite ==
    /\ pc = "eventbrite"
    /\ \E outcome \in EventbriteOutcomes :
        LET attempt == ExceptContinue(EventbriteAttempt(outcome, city, now))
            found == events \o attempt.events
        IN  /\ fetches' = Append(fetches, Fetch("eventbrite", eventbrite_urls(city)[urlIdx], outcome))
            /\ events' = found
            /\ IF attempt.raised
               THEN /\ pc' = "raised"
                    /\ response' = ServerError
                    /\ UNCHANGED <<urlIdx, all_events>>
               ELSE IF found = <<>> /\ urlIdx < Len(eventbrite_urls(city))
               THEN /\ urlIdx' = urlIdx + 1
                    /\ UNCHANGED <<pc, all_events, response>>
               ELSE /\ urlIdx' = urlIdx
                    /\ all_events' = found
                    /\ IF Len(found) < MeetupThreshold
                       THEN pc' = "meetup" /\ UNCHANGED response
                       ELSE pc' = "done" /\ response' = Respond(found, city, now)
    /\ UNCHANGED <<city, now, meetup_events, call, ret>>

\* the fetch of the Meetup URL and the rest of the request
FetchMeetup ==
    /\ pc = "meetup"
    /\ \E outcome \in MeetupOutcomes :
        LET scraped == scrape_meetup_events(outcome, city, now)
        IN  /\ fetches' = Append(fetches, Fetch("meetup", meetup_url(city), outcome))
            /\ meetup_events' = scraped.events
            /\ all_events' = all_events \o scraped.events
            /\ IF scraped.raised
               THEN pc' = "raised" /\ response' = ServerError
               ELSE /\ pc' = "done"
                    /\ response' = Respond(all_events \o scraped.events, city, now)
    /\ UNCHANGED <<city, now, urlIdx, events, call, ret>>

\* the request is over; nothing of it is kept, and the clock has moved on
NextRequest ==
    /\ pc \in {"done", "raised"}
    /\ pc' = "idle"
    /\ city' = <<>>
    /\ now' \in Nows
    /\ urlIdx' = 0
    /\ events' = <<>>
    /\ meetup_events' = <<>>
    /\ all_events' = <<>>
    /\ fetches' = <<>>
    /\ response' = NoResponse
    /\ UNCHANGED <<call, ret>>

Next ==
    \/ SearchRejected
    \/ SearchStart
    \/ FetchEventbrite
    \/ FetchMeetup
    \/ NextRequest

Spec == Init /\ [][Next]_vars

-----------------------------------------------------------------------------
(* Properties of a search request *)

\* the request has returned a list of events
Accepted == pc = "done" /\ response.error = <<>>

\* what the two sources returned, Source A's records first
Concatenation == events \o meetup_events

\* a title lower-cased and trimmed
LowerTrimmed(title) == strip(lower(title))

\* the places of a list whose title key occurs at no earlier place
FirstOccurrences(evs) ==
    {i \in 1..Len(evs) :
        \A j \in 1..(i - 1) : LowerTrimmed(evs[j].title) # LowerTrimmed(evs[i].title)}

\* the k-th smallest member of a set of places
KthOf(places, k) ==
    CHOOSE i \in places : Cardinality({j \in places : j <= i}) = k

\* result is evs with only the first occurrence of each title key, in the
\* order of evs, cut to 10 records
IsDeduplicatedPrefix(result, evs) ==
    LET first == FirstOccurrences(evs)
    IN  /\ Len(result) <= 10
        /\ \A i, j \in 1..Len(result) :
               i < j => LowerTrimmed(result[i].title) # LowerTrimmed(result[j].title)
        /\ Len(result) = (IF Cardinality(first) < 10 THEN Cardinality(first) ELSE 10)
        /\ \A k \in 1..Len(result) : result[k] = evs[KthOf(first, k)]

\* C1 as stated: for every pair of result sequences of Source A and Source B
\* the returned records are at most 10, have pairwise different lower-cased
\* trimmed titles, and are the concatenation (A then B) with only the first
\* occurrence of each title key kept.
C1_DedupEveryPair ==
    Accepted => IsDeduplicatedPrefix(response.events, Concatenation)

\* C1 amended: the same, whenever at least one source returned a record.
C1_DedupNonEmpty ==
    Accepted /\ Concatenation # <<>> =>
        IsDeduplicatedPrefix(response.events, Concatenation)

\* both sources returned records, and a Source B record was dropped for a title
\* that differs from a Source A title only in case
C1_Witness ==
    /\ Accepted
    /\ events # <<>>
    /\ meetup_events # <<>>
    /\ Len(response.events) < Len(Concatenation)
    /\ \E a \in 1..Len(events), b \in 1..Len(meetup_events) :
           /\ events[a].title # meetup_events[b].title
           /\ LowerTrimmed(events[a].title) = LowerTrimmed(meetup_events[b].title)

\* the demo events' anchor: tomorrow
Anchor == PlusTimedelta(now, 1, 0, 0)

\* C2: when both sources yield no events the request returns exactly 5 records
\* with the categories arts, technology, food, music, networking in this
\* order, whose resolved times increase strictly from each record to the next,
\* the i-th lying i days after the anchor.
C2_FallbackIncreasing ==
    Accepted /\ Concatenation = <<>> =>
        LET r == response.events
        IN  /\ Len(r) = 5
            /\ [i \in 1..5 |-> r[i].category] =
                   <<"arts", "technology", "food", "music", "networking">>
            /\ \A i \in 1..4 : Before(r[i].parsed_datetime, r[i + 1].parsed_datetime)
            /\ \A i \in 1..5 :
                   /\ ~Before(r[i].parsed_datetime, PlusTimedelta(Anchor, i, 0, 0))
                   /\ Before(r[i].parsed_datetime, PlusTimedelta(Anchor, i + 1, 0, 0))

\* the fetches of a site that the log holds
FetchesOf(source) == SelectSeq(fetches, LAMBDA f : f.source = source)

AllFailed(log) == \A i \in 1..Len(log) : ~log[i].ok

\* C3, what a finished request returned: a site whose every fetch failed
\* contributed no record, the returned sequence is never empty, and it is the 5
\* demo records when the sources gave nothing.
C3_Absorbed ==
    /\ pc \in {"meetup", "done"} /\ AllFailed(FetchesOf("eventbrite")) => events = <<>>
    /\ AllFailed(FetchesOf("meetup")) => meetup_events = <<>>
    /\ Accepted =>
          /\ response.events # <<>>
          /\ response.total_events = Len(response.events)
          /\ Concatenation = <<>> => Len(response.events) = 5

\* the fetches a request in progress may still make
FetchesLeft ==
    CASE pc = "eventbrite" -> 5 - urlIdx
      [] pc = "meetup" -> 1
      [] OTHER -> 0

\* C3: whatever the fetches and the cards do, no failure leaves the aggregator
\* (the request never ends raised), every step of a request in progress brings
\* it nearer its end (at most 4 fetches), and it returns a non-empty sequence
\* of records: a failed source gives none, and the demo records stand in when
\* nothing was found.
C3_NeverRaisesNeverEmpty ==
    /\ [](pc # "raised" /\ C3_Absorbed /\ Len(fetches) + FetchesLeft <= 4)
    /\ [][(pc \in {"eventbrite", "meetup"}) => (FetchesLeft > FetchesLeft')]_vars

\* all four fetches of a request failed and it returned the demo records
C3_Witness ==
    /\ Accepted
    /\ Len(fetches) = 4
    /\ AllFailed(fetches)
    /\ Len(response.events) = 5

\* C5: every returned record's resolved time is absent or not before the
\* moment it was computed at, texts without a year and texts more than a year
\* old included.
C5_NeverPast ==
    Accepted =>
        \A i \in 1..Len(response.events) :
            \/ response.events[i].parsed_datetime = NoDateTime
            \/ ~Before(response.events[i].parsed_datetime, now)

\* a returned record resolved from a text without a year, and one resolved from
\* a text dated more than a year back
C5_Witness ==
    /\ Accepted
    /\ \E i \in 1..Len(response.events) :
           /\ response.events[i].date_time.kind = "weekday_noyear"
           /\ response.events[i].parsed_datetime # NoDateTime
    /\ \E i \in 1..Len(response.events) :
           /\ response.events[i].date_time.kind \in {"free", "iso", "numeric"}
           /\ response.events[i].date_time.year + 1 < now.year
           /\ response.events[i].parsed_datetime # NoDateTime

\* C6: every returned record has a non-empty title, whichever source gave it.
C6_TitlesNonEmpty ==
    Accepted => \A i \in 1..Len(response.events) : response.events[i].title # <<>>

-----------------------------------------------------------------------------
(* filter_events *)

\* datetime.strptime(text, '%Y-%m-%d'): the date at 00:00, ValueError for a
\* text that is no such date
strptime_ymd(text) ==
    IF text.kind = "ymd" /\ ValidDate(text.year, text.month, text.day)
    THEN DT(text.year, text.month, text.day, 0)
    ELSE ValueError

\* filters.get(key) is falsy: the key is missing or its value is empty
Falsy(text) == text = <<>>

NoDateFilter == EmptyText

\* the category filter
FilterCategory(evs, filters) ==
    IF filters.category # "" /\ filters.category # "all"
    THEN SelectSeq(evs, LAMBDA e : e.category = filters.category)
    ELSE evs

\* the date_from filter, once from_date is parsed
FilterDateFrom(evs, filters) ==
    IF filters.date_from # NoDateFilter
    THEN LET from_date == strptime_ymd(filters.date_from)
         IN  SelectSeq(evs, LAMBDA e : e.parsed_datetime # NoDateTime
                                       /\ ~Before(e.parsed_datetime, from_date))
    ELSE evs

\* the date_to filter, once to_date is parsed
FilterDateTo(evs, filters) ==
    IF filters.date_to # NoDateFilter
    THEN LET to_date == strptime_ymd(filters.date_to)
         IN  SelectSeq(evs, LAMBDA e : e.parsed_datetime # NoDateTime
                                       /\ ~Before(to_date, e.parsed_datetime))
    ELSE evs

\* the search filter
FilterSearch(evs, filters) ==
    IF ~Falsy(filters.search)
    THEN LET search_term == lower(filters.search)
         IN  SelectSeq(evs, LAMBDA e : Contains(lower(e.title), search_term)
                                       \/ Contains(lower(e.description), search_term))
    ELSE evs

\* strptime raises on a date filter that is given and is no date: the
\* exception leaves the view
FilterRaises(filters) ==
    \/ filters.date_from # NoDateFilter /\ strptime_ymd(filters.date_from) = ValueError
    \/ filters.date_to # NoDateFilter /\ strptime_ymd(filters.date_to) = ValueError

\* filter_events on the request's events and filters
filter_events(evs, filters) ==
    IF FilterRaises(filters) THEN [raised |-> TRUE, events |-> <<>>, total |-> 0]
    ELSE LET filtered_events ==
                 FilterSearch(FilterDateTo(FilterDateFrom(FilterCategory(evs, filters),
                                                          filters), filters), filters)
         IN  [raised |-> FALSE, events |-> filtered_events, total |-> Len(filtered_events)]

-----------------------------------------------------------------------------
(* Calls of the pure functions and of filter_events, on arguments drawn at the start *)

\* no search request is in progress
NoRequest ==
    /\ pc = "idle"
    /\ city = <<>>
    /\ urlIdx = 0
    /\ events = <<>>
    /\ meetup_events = <<>>
    /\ all_events = <<>>
    /\ fetches = <<>>
    /\ response = NoResponse

requestVars == <<pc, city, now, urlIdx, events, meetup_events, all_events, fetches, response>>

Returned(fn, value) == [fn |-> fn, value |-> value]

(* categorize_event *)

CategorizeTitles == {
    <<"A","r","t"," ","W","o","r","k","s","h","o","p">>, <<"T","r","a","i","n","i","n","g"," ","D","a","y">>, <<"J","a","z","z"," ","C","o","n","c","e","r","t">>, <<"B","i","r","t","h","d","a","y"," ","P","a","r","t","y">>, <<"Y","o","g","a"," ","H","o","u","r">>,
    <<"W","I","N","E"," ","&"," ","B","E","E","R">>, <<"C","a","r","e","e","r"," ","F","a","i","r">>, <<>>, <<"S","o","c","c","e","r"," ","G","a","m","e">>, <<"L","e","c","t","u","r","e"," ","S","e","r","i","e","s">> }

CategorizeDescriptions == {
    <<>>, <<"N","o"," ","d","e","s","c","r","i","p","t","i","o","n"," ","a","v","a","i","l","a","b","l","e">>, <<"M","e","e","t","u","p"," ","e","v","e","n","t"," ","-"," ","c","h","e","c","k"," ","M","e","e","t","u","p",".","c","o","m"," ","f","o","r"," ","f","u","l","l"," ","d","e","t","a","i","l","s">>,
    <<"L","i","v","e"," ","m","u","s","i","c"," ","a","n","d"," ","f","o","o","d">>, <<"A"," ","c","l","a","s","s"," ","f","o","r"," ","b","e","g","i","n","n","e","r","s">>, <<"B","r","i","n","g"," ","a"," ","f","r","i","e","n","d">> }

InitCategorize ==
    /\ NoRequest
    /\ now \in Nows
    /\ call \in {[fn |-> "categorize_event", title |-> t, description |-> d] :
                    t \in CategorizeTitles, d \in CategorizeDescriptions}
    /\ ret = NoCall

CallCategorize ==
    /\ call.fn = "categorize_event"
    /\ ret = NoCall
    /\ ret' = Returned("categorize_event", categorize_event(call.title, call.description))
    /\ UNCHANGED <<requestVars, call>>

SpecCategorize == InitCategorize /\ [][CallCategorize]_vars

(* parse_event_datetime *)

\* the readings of datetime.now(): those of the requests, and a day after a leap day
DateNows == Nows \cup {DT(2028, 3, 1, 9 * 60)}

DateYears == {2024, 2026, 2027, 2028}

DateDays == {<<2, 29>>, <<8, 31>>, <<11, 1>>, <<12, 31>>}

DateMinutes == {0, 12 * 60, 23 * 60 + 30}

\* the date/time texts: each kind of text with a year, where the date exists in
\* that year; the kinds that may come without a year; the texts that are no date
DateTexts ==
    {ds \in {DateText(k, y, md[1], md[2], mi) :
                k \in {"weekday_long", "month_long", "numeric", "iso", "free", "free_tz"},
                y \in DateYears, md \in DateDays, mi \in DateMinutes} :
        ValidDate(ds.year, ds.month, ds.day)}
    \cup {DateText(k, 0, md[1], md[2], mi) :
             k \in {"weekday_noyear", "free"}, md \in DateDays, mi \in DateMinutes}
    \cup {EmptyText, DateTimeTBA, DateText("unparseable", 0, 0, 0, 0)}

InitParseDatetime ==
    /\ NoRequest
    /\ now \in DateNows
    /\ call \in {[fn |-> "parse_event_datetime", date_string |-> ds] : ds \in DateTexts}
    /\ ret = NoCall

CallParseDatetime ==
    /\ call.fn = "parse_event_datetime"
    /\ ret = NoCall
    /\ ret' = Returned("parse_event_datetime", parse_event_datetime(call.date_string, now))
    /\ UNCHANGED <<requestVars, call>>

SpecParseDatetime == InitParseDatetime /\ [][CallParseDatetime]_vars

(* parse_event_location *)

LocationCities == {<<"D","e","t","r","o","i","t">>, <<"A","n","n"," ","A","r","b","o","r">>}

LocationLabels == {<<>>, <<"L","o","c","a","t","i","o","n",":">>, <<"V","e","n","u","e",":"," ">>, <<"W","h","e","r","e",":","V","e","n","u","e",":">>, <<"V","e","n","u","e",":","W","h","e","r","e",":"," ">>, <<"a","d","d","r","e","s","s",":">>}

LocationBodies == {
    <<>>, <<"T","B","A">>, <<"T","o"," ","B","e"," ","A","n","n","o","u","n","c","e","d">>, <<"O","n","l","i","n","e">>, <<"V","I","R","T","U","A","L">>, <<"F","o","x"," ","T","h","e","a","t","r","e">>, <<"D","e","t","r","o","i","t">>,
    <<"H","a","r","t">>, <<"A","r","e","n","a">>, <<"A","n","n"," ","A","r","b","o","r">> }

LocationTexts ==
    {pad \o label \o body \o pad :
        pad \in {<<>>, <<" "," ">>}, label \in LocationLabels, body \in LocationBodies}

InitParseLocation ==
    /\ NoRequest
    /\ now \in Nows
    /\ call \in {[fn |-> "parse_event_location", location_string |-> l, city |-> c] :
                    l \in LocationTexts, c \in LocationCities}
    /\ ret = NoCall

CallParseLocation ==
    /\ call.fn = "parse_event_location"
    /\ ret = NoCall
    /\ ret' = Returned("parse_event_location",
                       parse_event_location(call.location_string, call.city))
    /\ UNCHANGED <<requestVars, call>>

SpecParseLocation == InitParseLocation /\ [][CallParseLocation]_vars

(* create_weekend_digest *)

\* the longest list of events handed to the digest
MaxDigestEvents == 5

\* the lengths of the descriptions of the records handed to the digest
DigestLengths == <<24, 99, 100, 101, 21, 203, 48>>

\* a record as the aggregator returns them, with a description of a given length
DigestRecord(k) ==
    EventRecord(Pick(TitlePool, k), Pick(DatePool, k), NoDateTime, <<"H","a","r","t"," ","P","l","a","z","a">>,
                Rep("d", Pick(DigestLengths, k)), "other", meetup_url(DefaultCity))

DigestLists ==
    {[i \in 1..n |-> DigestRecord(o + stride * (i - 1))] :
        n \in 0..MaxDigestEvents, o \in 1..Len(DigestLengths), stride \in 1..3}

InitDigest ==
    /\ NoRequest
    /\ now \in Nows
    /\ call \in {[fn |-> "create_weekend_digest", events |-> l] : l \in DigestLists}
    /\ ret = NoCall

CallDigest ==
    /\ call.fn = "create_weekend_digest"
    /\ ret = NoCall
    /\ ret' = Returned("create_weekend_digest", create_weekend_digest(call.events))
    /\ UNCHANGED <<requestVars, call>>

SpecDigest == InitDigest /\ [][CallDigest]_vars

(* filter_events *)

\* the records of a filter request: around midnight and in the afternoon of
\* 5 November 2026, the days before and after, and one with no resolved time
FilterRecord(k, parsed_datetime, category) ==
    EventRecord(Pick(TitlePool, k), Pick(DatePool, k), parsed_datetime, <<"H","a","r","t"," ","P","l","a","z","a">>,
                <<"N","o"," ","d","e","s","c","r","i","p","t","i","o","n"," ","a","v","a","i","l","a","b","l","e">>, category, meetup_url(DefaultCity))

FilterPool == <<
    FilterRecord(1, DT(2026, 11, 5, 0), "music"),
    FilterRecord(2, DT(2026, 11, 5, 14 * 60), "arts"),
    FilterRecord(3, DT(2026, 11, 4, 23 * 60 + 59), "technology"),
    FilterRecord(4, NoDateTime, "music"),
    FilterRecord(5, DT(2026, 11, 6, 10 * 60), "other"),
    FilterRecord(6, DT(2026, 11, 5, 23 * 60 + 59), "music") >>

\* the longest list of events of a filter request
MaxFilterEvents == 6

FilterLists ==
    {[i \in 1..n |-> Pick(FilterPool, o + i - 1)] : n \in {0, 3, MaxFilterEvents}, o \in 1..2}

Ymd(y, m, d) == DateText("ymd", y, m, d, 0)

FilterSpecs ==
    {[category |-> c, date_from |-> f, date_to |-> t, search |-> q] :
        c \in {"", "all", "music"},
        f \in {NoDateFilter, Ymd(2026, 11, 5), Ymd(2026, 11, 4), DateText("unparseable", 0, 0, 0, 0)},
        t \in {NoDateFilter, Ymd(2026, 11, 5), Ymd(2026, 11, 6), Ymd(2026, 2, 30)},
        q \in {<<>>, <<"J","A","Z","Z">>}}

InitFilter ==
    /\ NoRequest
    /\ now \in Nows
    /\ call \in {[fn |-> "filter_events", events |-> l, filters |-> f] :
                    l \in FilterLists, f \in FilterSpecs}
    /\ ret = NoCall

CallFilter ==
    /\ call.fn = "filter_events"
    /\ ret = NoCall
    /\ ret' = Returned("filter_events", filter_events(call.events, call.filters))
    /\ UNCHANGED <<requestVars, call>>

SpecFilter == InitFilter /\ [][CallFilter]_vars

-----------------------------------------------------------------------------
(* Properties of the pure functions and of filter_events *)

\* the naive point in time a date/time text is read as: the fields of the
\* text, the year being 1900 for a text of the year-less pattern (this year
\* when 1900 has no such day) and this year for any other text without a year
C4_ParsedPoint ==
    LET ds == call.date_string
        y == IF ds.kind = "weekday_noyear"
             THEN (IF ValidDate(1900, ds.month, ds.day) THEN 1900 ELSE now.year)
             ELSE IF ds.year = 0 THEN now.year ELSE ds.year
    IN  DT(y, ds.month, ds.day, ds.minute)

\* the text was read as a naive point in time, and the call has returned
C4_Parsed ==
    /\ ret.fn = "parse_event_datetime"
    /\ call.date_string.kind \in
           {"weekday_long", "month_long", "numeric", "iso", "weekday_noyear", "free"}
    /\ ValidDate(C4_ParsedPoint.year, C4_ParsedPoint.month, C4_ParsedPoint.day)

C7_Matching ==
    LET text == lower(call.title \o <<" ">> \o call.description)
    IN  {i \in 1..Len(EVENT_CATEGORIES) :
            \E k \in 1..Len(EVENT_CATEGORIES[i].keywords) :
                Contains(text, EVENT_CATEGORIES[i].keywords[k])}

\* C7: categorize_event returns one value of the closed set of 8: the first
\* category, in the table's declaration order, with a keyword in the
\* lower-cased 'title description' text, and 'other' exactly when no
\* category has one.
C7_FirstMatchingCategory ==
    ret.fn = "categorize_event" =>
        /\ ret.value \in {"music", "sports", "arts", "technology", "food",
                          "education", "networking", "other"}
        /\ [i \in 1..8 |-> EVENT_CATEGORIES[i].category] =
               <<"music", "sports", "arts", "technology", "food",
                 "education", "networking", "other">>
        /\ \A i \in C7_Matching :
               (\A k \in C7_Matching : i <= k) => ret.value = EVENT_CATEGORIES[i].category
        /\ ret.value = "other" <=> C7_Matching = {}

\* a text with keywords of arts and of the later technology and education was
\* given the earlier category
C7_Witness ==
    /\ ret.fn = "categorize_event"
    /\ {3, 4, 6} \subseteq C7_Matching
    /\ ret.value = "arts"

\* the text left of a location after trimming and removing the label prefixes
C8_Cleaned == RemovePrefixes(strip(call.location_string), 1)

C8_Generic ==
    \/ Len(C8_Cleaned) < 5
    \/ lower(C8_Cleaned) \in {<<"t","b","a">>, <<"t","o"," ","b","e"," ","a","n","n","o","u","n","c","e","d">>, <<"o","n","l","i","n","e">>, <<"v","i","r","t","u","a","l">>}

\* C8 as stated: the placeholder '<City> Area' is returned when the remaining
\* text is shorter than 5 characters, when its lower-cased form is one of tba,
\* to be announced, online, virtual, and when the trimmed input is the city
\* name; in every other case the cleaned text; the result is never empty.
C8_AreaInThreeCases ==
    ret.fn = "parse_event_location" =>
        /\ ret.value = (IF C8_Generic \/ strip(call.location_string) = call.city
                        THEN call.city \o <<" ","A","r","e","a">>
                        ELSE C8_Cleaned)
        /\ ret.value # <<>>

\* C8 amended: 'Downtown <City>' is returned for an empty input and for one
\* whose trimmed form is the city name; else '<City> Area' when the remaining
\* text is shorter than 5 characters or its lower-cased form is one of tba, to
\* be announced, online, virtual; in every other case the cleaned text; the
\* result is never empty.
C8_DowntownOrArea ==
    ret.fn = "parse_event_location" =>
        /\ ret.value =
               (IF call.location_string = <<>> \/ strip(call.location_string) = call.city
                THEN <<"D","o","w","n","t","o","w","n"," ">> \o call.city
                ELSE IF C8_Generic THEN call.city \o <<" ","A","r","e","a">> ELSE C8_Cleaned)
        /\ ret.value # <<>>

\* the padded city name came back as 'Downtown <City>', and not as '<City> Area'
C8_Witness ==
    /\ ret.fn = "parse_event_location"
    /\ call.location_string # call.city
    /\ strip(call.location_string) = call.city
    /\ ret.value = <<"D","o","w","n","t","o","w","n"," ">> \o call.city

\* the calendar date of a point in time is on or after that of another
C9_OnOrAfter(a, b) == ~Before([a EXCEPT !.minute = 0], [b EXCEPT !.minute = 0])

\* C9: date_from and date_to are inclusive calendar-date bounds: of the records
\* that pass the category and search filters, those kept are exactly the ones
\* with a resolved time on a date d with date_from <= d <= date_to, at any
\* time of day; a record with no resolved time is dropped under a date bound.
C9_InclusiveDates ==
    ret.fn = "filter_events" /\ ~ret.value.raised =>
        LET f == call.filters
            others == FilterSearch(FilterCategory(call.events, f), f)
            Kept(e) ==
                /\ f.date_from # NoDateFilter =>
                       /\ e.parsed_datetime # NoDateTime
                       /\ C9_OnOrAfter(e.parsed_datetime, strptime_ymd(f.date_from))
                /\ f.date_to # NoDateFilter =>
                       /\ e.parsed_datetime # NoDateTime
                       /\ C9_OnOrAfter(strptime_ymd(f.date_to), e.parsed_datetime)
        IN  ret.value.events = SelectSeq(others, Kept)

\* the number of events of a digest call
C10_N == Len(call.events)

\* C10: the digest of no events is the fixed text; that of n >= 1 events has
\* min(3, n) entries, numbered from 1 in input order and taken from the first
\* records, each with the first 100 characters of the record's description
\* followed by '...', cut or not.
C10_TopThree ==
    ret.fn = "create_weekend_digest" =>
        LET d == ret.value
        IN  IF C10_N = 0
            THEN d.opening = <<"N","o"," ","e","v","e","n","t","s"," ","f","o","u","n","d"," ","f","o","r"," ","t","h","i","s"," ","w","e","e","k","e","n","d",".">> /\ d.entries = <<>>
            ELSE /\ Len(d.entries) = (IF C10_N < 3 THEN C10_N ELSE 3)
                 /\ d.opening # <<"N","o"," ","e","v","e","n","t","s"," ","f","o","u","n","d"," ","f","o","r"," ","t","h","i","s"," ","w","e","e","k","e","n","d",".">>
                 /\ \A i \in 1..Len(d.entries) :
                        LET text == call.events[i].description
                            kept == IF Len(text) < 100 THEN Len(text) ELSE 100
                        IN  /\ d.entries[i].number = i
                            /\ d.entries[i].title = call.events[i].title
                            /\ d.entries[i].date_time = call.events[i].date_time
                            /\ d.entries[i].location = call.events[i].location
                            /\ Len(d.entries[i].description) = kept + 3
                            /\ \A k \in 1..kept : d.entries[i].description[k] = text[k]
                            /\ \A k \in 1..3 : d.entries[i].description[kept + k] = "."

\* a digest of more than 3 events has 3 entries, one of a description shorter
\* than 100 characters and one of a longer one, both ending in '...'
C10_Witness ==
    /\ ret.fn = "create_weekend_digest"
    /\ C10_N > 3
    /\ Len(ret.value.entries) = 3
    /\ \E i, j \in 1..3 :
           /\ Len(call.events[i].description) < 100
           /\ Len(ret.value.entries[i].description) = Len(call.events[i].description) + 3
           /\ Len(call.events[j].description) > 100
           /\ Len(ret.value.entries[j].description) = 103

-----------------------------------------------------------------------------
(* The order of the fetches of a search request *)

\* the places of the fetch log where a site was fetched
FetchPlaces(source) == {i \in 1..Len(fetches) : fetches[i].source = source}

\* the log of a run: at most one Meetup fetch, after every Eventbrite fetch of
\* the run, made only when Eventbrite returned fewer than 5 records, and made
\* whenever it did
C11_LogInOrder ==
    /\ Cardinality(FetchPlaces("meetup")) <= 1
    /\ \A a \in FetchPlaces("eventbrite"), b \in FetchPlaces("meetup") : a < b
    /\ FetchPlaces("meetup") # {} => pc \in {"done", "raised"} /\ Len(events) < 5
    /\ pc = "meetup" => Len(events) < 5 /\ FetchPlaces("meetup") = {}
    /\ Accepted => (FetchPlaces("meetup") # {} <=> Len(events) < 5)

\* a step that fetches the site
Fetches(source) ==
    /\ Len(fetches') > Len(fetches)
    /\ fetches'[Len(fetches')].source = source

\* C11: in every run the fetches follow one another, one per step; Meetup is
\* fetched if and only if Eventbrite returned fewer than 5 records; the single
\* Meetup fetch comes after every Eventbrite fetch of the run, when what
\* Eventbrite returned no longer changes; and no Meetup fetch is made when
\* Eventbrite returned 5 records or more.
C11_MeetupIffFewerThanFive ==
    /\ []C11_LogInOrder
    /\ [][/\ Len(fetches') <= Len(fetches) + 1
          /\ Fetches("meetup") =>
                /\ pc = "meetup"
                /\ Len(events) < 5
                /\ events' = events
                /\ pc' # "eventbrite"
          /\ Fetches("eventbrite") => FetchPlaces("meetup") = {}]_vars

\* a run whose third Eventbrite fetch gave fewer than 5 records and whose
\* fourth fetch, of Meetup, added records to them
C11_Witness ==
    /\ Accepted
    /\ Len(fetches) = 4
    /\ FetchPlaces("meetup") = {4}
    /\ events # <<>>
    /\ Len(events) < 5
    /\ meetup_events # <<>>
    /\ Len(response.events) > Len(events)

\* the Eventbrite fetches of a run so far: the k-th is of the k-th URL pattern,
\* there are at most 3, another one is due only while no record was extracted,
\* and at most 8 records were extracted, from a fetch that gave a page
C12_UrlsInOrder ==
    LET log == FetchesOf("eventbrite")
    IN  /\ Len(log) <= 3
        /\ \A k \in 1..Len(log) : log[k].url = eventbrite_urls(city)[k]
        /\ Len(events) <= 8
        /\ pc = "eventbrite" => events = <<>> /\ urlIdx = Len(log) + 1
        /\ events # <<>> => log # <<>> /\ log[Len(log)].ok

\* C12: scrape_eventbrite_events fetches its 3 URLs in their order; each fetch
\* is made only while every earlier one yielded no record, none is made once
\* records were extracted, so there are at most 3 fetches; and the records, at
\* most 8, are all put there by one fetch.
C12_StopsAtFirstRecords ==
    /\ []C12_UrlsInOrder
    /\ [][/\ Fetches("eventbrite") =>
                /\ pc = "eventbrite"
                /\ events = <<>>
                /\ fetches'[Len(fetches')].url = eventbrite_urls(city)[urlIdx]
                /\ Len(events') <= 8
                /\ events' # <<>> => pc' # "eventbrite"
          /\ (events' # events /\ events' # <<>>) =>
                /\ Fetches("eventbrite")
                /\ fetches'[Len(fetches')].ok]_vars

\* a run whose first Eventbrite fetch failed, whose second gave a page without
\* a record, and whose third gave a page of more than 8 cards, cut to 8 records
C12_Witness ==
    /\ pc = "done"
    /\ Len(FetchesOf("eventbrite")) = 3
    /\ ~fetches[1].ok
    /\ fetches[2].ok
    /\ fetches[3].ok
    /\ Len(events) = 8
    /\ FetchPlaces("meetup") = {}

-----------------------------------------------------------------------------
(* scrape_eventbrite_events: the extraction of one card *)

\* what the 6 title selectors select in a card: a link under the first, a blank
\* link before a good one, nothing, a plain element under the fifth, a link
\* without text
ExtractTitles == {
    [NoElems(6) EXCEPT ![1] = Elem("a", <<"J","a","z","z"," ","C","o","n","c","e","r","t">>, <<"/","e","/","1">>)],
    [NoElems(6) EXCEPT ![2] = Elem("a", <<" "," ">>, <<"/","e","/","2">>),
                       ![4] = Elem("a", <<"A","r","t"," ","W","o","r","k","s","h","o","p">>, <<"/","e","/","3">>)],
    NoElems(6),
    [NoElems(6) EXCEPT ![5] = Elem("div", <<"C","a","r","e","e","r"," ","F","a","i","r">>, <<>>)],
    [NoElems(6) EXCEPT ![1] = Elem("a", <<>>, <<"/","e","/","4">>)] }

\* what the 5 date selectors select: a date under the first, nothing, an empty
\* element before a date, an empty element alone, the words "Date/Time TBA"
\* before a date, two dates
ExtractDates == {
    [NoDateElems(5) EXCEPT ![1] = DateElem(DateText("iso", 2026, 8, 31, 14 * 60))],
    NoDateElems(5),
    [NoDateElems(5) EXCEPT ![1] = DateElem(EmptyText),
                           ![3] = DateElem(DateText("weekday_long", 2029, 12, 31, 20 * 60))],
    [NoDateElems(5) EXCEPT ![1] = DateElem(EmptyText)],
    [NoDateElems(5) EXCEPT ![1] = DateElem(DateTimeTBA),
                           ![2] = DateElem(DateText("numeric", 2028, 7, 4, 9 * 60))],
    [NoDateElems(5) EXCEPT ![2] = DateElem(DateText("month_long", 2028, 3, 5, 19 * 60)),
                           ![4] = DateElem(DateText("iso", 2029, 1, 2, 8 * 60))] }

\* what the 4 location selectors select: a venue under the first, nothing, a
\* blank element before a labelled venue, a generic word under the second
ExtractLocations == {
    [NoElems(4) EXCEPT ![1] = Elem("div", <<"F","o","x"," ","T","h","e","a","t","r","e">>, <<>>)],
    NoElems(4),
    [NoElems(4) EXCEPT ![1] = Elem("div", <<" ">>, <<>>),
                       ![3] = Elem("span", <<"V","e","n","u","e",":"," ","H","a","r","t"," ","P","l","a","z","a">>, <<>>)],
    [NoElems(4) EXCEPT ![2] = Elem("div", <<"O","n","l","i","n","e">>, <<>>)] }

\* what the 4 description selectors select: a text under the third, nothing, a
\* text of at most 20 characters before a longer one, an empty element before
\* a text of more than 200 characters, a text of at most 20 characters alone
ExtractDescriptions == {
    [NoElems(4) EXCEPT ![3] = Elem("p", <<"A","n"," ","e","v","e","n","i","n","g"," ","o","f"," ","l","i","v","e"," ","m","u","s","i","c">>, <<>>)],
    NoElems(4),
    [NoElems(4) EXCEPT ![1] = Elem("div", <<"D","o","o","r","s"," ","o","p","e","n"," ","a","t"," ","7">>, <<>>),
                       ![4] = Elem("div", <<"B","r","i","n","g"," ","a"," ","f","r","i","e","n","d"," ","a","n","d"," ","a"," ","b","l","a","n","k","e","t">>, <<>>)],
    [NoElems(4) EXCEPT ![1] = Elem("div", <<>>, <<>>),
                       ![2] = Elem("div", LongText, <<>>)],
    [NoElems(4) EXCEPT ![1] = Elem("div", <<"D","o","o","r","s"," ","o","p","e","n"," ","a","t"," ","7">>, <<>>)] }

ExtractCards ==
    {[raises |-> FALSE, title |-> t, date |-> d, location |-> l, description |-> s] :
        t \in ExtractTitles, d \in ExtractDates, l \in ExtractLocations,
        s \in ExtractDescriptions}

InitExtractCard ==
    /\ NoRequest
    /\ now \in Nows
    /\ call \in {[fn |-> "extract_card", card |-> c, city |-> DefaultCity] : c \in ExtractCards}
    /\ ret = NoCall

\* the body of the loop over the cards of an Eventbrite page, for one card
CallExtractCard ==
    /\ call.fn = "extract_card"
    /\ ret = NoCall
    /\ ret' = Returned("extract_card", EventbriteCard(call.card, call.city, now))
    /\ UNCHANGED <<requestVars, call>>

SpecExtractCard == InitExtractCard /\ [][CallExtractCard]_vars

\* index of the first selector of the list that yields non-empty text, 0 if
\* none does
FirstNonEmpty(elems) ==
    IF \E i \in 1..Len(elems) : elems[i].found /\ get_text(elems[i]) # <<>>
    THEN CHOOSE i \in 1..Len(elems) :
             /\ elems[i].found /\ get_text(elems[i]) # <<>>
             /\ \A k \in 1..(i - 1) : ~(elems[k].found /\ get_text(elems[k]) # <<>>)
    ELSE 0

\* the same for the date selectors
FirstNonEmptyDate(elems) ==
    IF \E i \in 1..Len(elems) : elems[i].found /\ elems[i].text # EmptyText
    THEN CHOOSE i \in 1..Len(elems) :
             /\ elems[i].found /\ elems[i].text # EmptyText
             /\ \A k \in 1..(i - 1) : ~(elems[k].found /\ elems[k].text # EmptyText)
    ELSE 0

\* the card was extracted
C13_Extracted == ret.fn = "extract_card"

\* the title is the text of the first title selector with non-empty text, and
\* the card is skipped only when there is none
C13_Title ==
    LET t == FirstNonEmpty(call.card.title)
    IN  IF t = 0 THEN ret.value = <<>>
        ELSE /\ Len(ret.value) = 1
             /\ ret.value[1].title = get_text(call.card.title[t])

\* the date is the text of the first date selector with non-empty text, and
\* 'Date/Time TBA' when there is none
C13_Date ==
    LET d == FirstNonEmptyDate(call.card.date)
    IN  ret.value # <<>> =>
            ret.value[1].date_time =
                (IF d = 0 THEN DateTimeTBA ELSE call.card.date[d].text)

\* the location is the cleaned text of the first location selector with
\* non-empty text, and 'Downtown <city>' when there is none
C13_Location ==
    LET l == FirstNonEmpty(call.card.location)
    IN  ret.value # <<>> =>
            ret.value[1].location =
                (IF l = 0 THEN <<"D","o","w","n","t","o","w","n"," ">> \o call.city
                 ELSE parse_event_location(get_text(call.card.location[l]), call.city))

\* the description is the text, cut to 200 characters, of the first description
\* selector with non-empty text, and 'No description available' when there is
\* none
C13_Description ==
    LET s == FirstNonEmpty(call.card.description)
    IN  ret.value # <<>> =>
            ret.value[1].description =
                (IF s = 0 THEN <<"N","o"," ","d","e","s","c","r","i","p","t","i","o","n"," ","a","v","a","i","l","a","b","l","e">>
                 ELSE TruncateDescription(get_text(call.card.description[s])))

\* C13: for every Eventbrite card each of the four fields (title, date,
\* location, description) takes its value from the first selector of its list
\* that yields non-empty text, and gets its placeholder (the card skipped for
\* the title, 'Date/Time TBA' for the date) only when no selector yields
\* non-empty text.
C13_FirstNonEmptyText ==
    C13_Extracted => C13_Title /\ C13_Date /\ C13_Location /\ C13_Description

=============================================================================
